---- MODULE Spec2Model ----
(***************************************************************************)
(* Http::Connection of qBittorrent (src/base/http/connection.cpp): the     *)
(* per-connection read / parse / dispatch / respond loop, the idle timer   *)
(* query and the Accept-Encoding negotiation.                              *)
(*                                                                         *)
(* Strings (QString, QByteArray) are sequences of one-character strings.   *)
(***************************************************************************)
EXTENDS Integers, Sequences, FiniteSets, TLC

VARIABLES
    m_receivedData,    \* Connection::m_receivedData
    m_idleTimer,       \* Connection::m_idleTimer: time elapsed since the last start()
    m_requestHandler,  \* Connection::m_requestHandler: the headers the handler puts in its responses
    sockIn,            \* m_socket: received bytes not yet read (bytesAvailable() = Len(sockIn))
    sockOut,           \* m_socket: written responses not yet flushed (bytesToWrite() = 0 iff sockOut = 0)
    sockState,         \* m_socket->state()
    sent,              \* history: every byte the peer has sent on this connection
    stream,            \* history: every byte read() has appended to m_receivedData
    events,            \* history: parser calls, handler calls, socket writes and closes, in order
    call,              \* history: the last operation invoked on the Connection and its result
    codings,           \* argument of acceptsGzipEncoding
    gzipResult         \* result of acceptsGzipEncoding(codings), once call.op names it

vars == << m_receivedData, m_idleTimer, m_requestHandler, sockIn, sockOut, sockState,
           sent, stream, events, call, codings, gzipResult >>

(***************************************************************************)
(* Bounds of the model.                                                    *)
(***************************************************************************)
\* RequestParser::MAX_CONTENT_SIZE, scaled down so that the buffer limit is reached
MAX_CONTENT_SIZE == 1

\* the peer sends at most MaxStream bytes on the connection
MaxStream == 3

\* at most MaxPending sent bytes are waiting to be read
MaxPending == 2

\* the idle timer is observed up to MaxElapsed time units
MaxElapsed == 1

\* an Accept-Encoding header value holds at most MaxEntries comma separated entries
MaxEntries == 2

\* the drain loop is followed from buffers of at most MaxBuffer bytes
MaxBuffer == 3

\* m_socket->read delivers nothing at most MaxIdleReads times in a row on the same buffer
MaxIdleReads == 1

(***************************************************************************)
(* Generic sequence helpers.                                               *)
(***************************************************************************)
Drop(s, n) == SubSeq(s, n + 1, Len(s))

Take(s, n) == SubSeq(s, 1, n)

IsPrefix(p, s) == Len(p) <= Len(s) /\ Take(s, Len(p)) = p

(***************************************************************************)
(* QString operations used by acceptsGzipEncoding.                         *)
(***************************************************************************)
\* QString::remove(QChar)
Remove(str, ch) == SelectSeq(str, LAMBDA c : c # ch)

RECURSIVE SplitAll(_, _, _)
\* QStringView::split(sep, Qt::KeepEmptyParts): cur is the part being collected
SplitAll(str, sep, cur) ==
    IF str = << >> THEN << cur >>
    ELSE IF Head(str) = sep THEN << cur >> \o SplitAll(Tail(str), sep, << >>)
    ELSE SplitAll(Tail(str), sep, Append(cur, Head(str)))

\* QStringView::split(sep, Qt::SkipEmptyParts)
Split(str, sep) == SelectSeq(SplitAll(str, sep, << >>), LAMBDA part : part # << >>)

\* QStringView::startsWith
StartsWith(str, prefix) == IsPrefix(prefix, str)

\* QStringView::mid(pos): empty when pos is past the end
Mid(str, pos) == IF pos >= Len(str) THEN << >> ELSE SubSeq(str, pos + 1, Len(str))

Digit == {"0", "1", "2", "3", "4", "5", "6", "7", "8", "9"}

RECURSIVE DigitRun(_, _)
\* number of consecutive digits of str starting at index i (1-based)
DigitRun(str, i) ==
    IF i <= Len(str) /\ str[i] \in Digit THEN 1 + DigitRun(str, i + 1) ELSE 0

\* the sign of a parsed number: its mantissa str[i0 .. i2 - 1] is zero or not
DoubleSign(str, i0, i2) ==
    IF \A i \in i0 .. (i2 - 1) : str[i] \in {"0", "."} THEN 0
    ELSE IF str[1] = "-" THEN -1 ELSE 1

\* the exponent, if any, starts at i2; mantissa is the number of mantissa digits
DoubleExponent(str, i0, i2, mantissa) ==
    LET hasExp == i2 <= Len(str) /\ str[i2] \in {"e", "E"}
        i3     == IF i2 + 1 <= Len(str) /\ str[i2 + 1] \in {"+", "-"} THEN i2 + 2 ELSE i2 + 1
        ok     == /\ mantissa >= 1
                  /\ IF hasExp
                     THEN DigitRun(str, i3) >= 1 /\ i3 + DigitRun(str, i3) = Len(str) + 1
                     ELSE i2 = Len(str) + 1
    IN  [ok |-> ok, sign |-> IF ok THEN DoubleSign(str, i0, i2) ELSE 0]

\* the fraction, if any, starts at i1, behind the integer digits str[i0 .. i1 - 1]
DoubleFraction(str, i0, i1) ==
    IF i1 <= Len(str) /\ str[i1] = "."
    THEN DoubleExponent(str, i0, i1 + 1 + DigitRun(str, i1 + 1),
                        (i1 - i0) + DigitRun(str, i1 + 1))
    ELSE DoubleExponent(str, i0, i1, i1 - i0)

\* the digits start at i0, behind the sign
DoubleDigits(str, i0) == DoubleFraction(str, i0, i0 + DigitRun(str, i0))

\* QStringView::toDouble(&ok) in the C locale: [sign] digits [. digits] [e [sign] digits],
\* at least one mantissa digit, nothing before or after. The result is the parse
\* flag and the sign of the value (all that acceptsGzipEncoding reads).
toDouble(str) ==
    DoubleDigits(str, IF str # << >> /\ str[1] \in {"+", "-"} THEN 2 ELSE 1)

(***************************************************************************)
(* Connection::acceptsGzipEncoding.                                        *)
(***************************************************************************)
GZIP == << "g", "z", "i", "p" >>

STAR == << "*" >>

\* if (!ok || (qvalue <= 0)) return false; return true;
QualityAccepted(qvalue) == IF ~qvalue.ok \/ qvalue.sign <= 0 THEN FALSE ELSE TRUE

RECURSIVE isCodingAvailable(_, _)
\* mutant of isCodingAvailable: only a negative quality value excludes the coding
isCodingAvailableZeroAccepted(list, encoding) ==
    IF list = << >> THEN FALSE
    ELSE IF ~StartsWith(Head(list), encoding) THEN isCodingAvailable(Tail(list), encoding)
    ELSE IF Head(list) = encoding THEN TRUE
    ELSE \E qvalue \in {toDouble(Mid(Head(list), Len(encoding) + 3))} :
            ~(~qvalue.ok \/ qvalue.sign < 0)

\* mutant of isCodingAvailable: an entry with a bad quality value is skipped and the
\* scan goes on
isCodingAvailableFallsThrough(list, encoding) ==
    IF list = << >> THEN FALSE
    ELSE IF ~StartsWith(Head(list), encoding) THEN isCodingAvailable(Tail(list), encoding)
    ELSE IF Head(list) = encoding THEN TRUE
    ELSE IF QualityAccepted(toDouble(Mid(Head(list), Len(encoding) + 3))) THEN TRUE
    ELSE isCodingAvailable(Tail(list), encoding)

\* the lambda isCodingAvailable: the first entry that starts with encoding decides
isCodingAvailable(list, encoding) ==
    IF list = << >> THEN FALSE
    ELSE IF ~StartsWith(Head(list), encoding) THEN isCodingAvailable(Tail(list), encoding)
    ELSE IF Head(list) = encoding THEN TRUE
    ELSE QualityAccepted(toDouble(Mid(Head(list), Len(encoding) + 3)))  \* ex. skip over "gzip;q="

\* codings.remove(u' ').remove(u'\t') split on ',' with Qt::SkipEmptyParts
CodingList(str) == Split(Remove(Remove(str, " "), "\t"), ",")

\* mutant of AcceptsGzipIn: an entry for gzip that does not accept it is final, * is
\* consulted only when the list has no entry for gzip
AcceptsGzipInExclusionFinal(list) ==
    IF list = << >> THEN FALSE
    ELSE IF isCodingAvailable(list, GZIP) THEN TRUE
    ELSE IF \E i \in 1 .. Len(list) : StartsWith(list[i], GZIP) THEN FALSE
    ELSE IF isCodingAvailable(list, STAR) THEN TRUE
    ELSE FALSE

\* the decision of acceptsGzipEncoding on the list of entries
AcceptsGzipIn(list) ==
    IF list = << >> THEN FALSE
    ELSE IF isCodingAvailable(list, GZIP) THEN TRUE
    ELSE IF isCodingAvailable(list, STAR) THEN TRUE
    ELSE FALSE

acceptsGzipEncoding(str) == AcceptsGzipIn(CodingList(str))

(***************************************************************************)
(* The collaborators of Connection: the request parser, the request        *)
(* handler and the response type.                                          *)
(***************************************************************************)
\* The wire alphabet of the model: "g" is a header byte (it stands for one entry
\* gzip of the Accept-Encoding header), "x" is a byte no valid request contains,
\* "e" ends a request.
Byte == {"g", "x", "e"}

\* the content of the part of a QByteArray that resize() added and nothing filled
Uninit == "?"

RECURSIVE AcceptEncodingOf(_)
\* the accept-encoding header value a request's header bytes stand for
AcceptEncodingOf(hdr) ==
    IF hdr = << >> THEN << >>
    ELSE LET rest == AcceptEncodingOf(Tail(hdr))
         IN  IF rest = << >> THEN GZIP ELSE GZIP \o << ",", " " >> \o rest

EmptyMap == << >>

\* QMap::operator[] as an lvalue: insert or overwrite
SetHeader(headers, name, value) ==
    [k \in DOMAIN headers \cup {name} |-> IF k = name THEN value ELSE headers[k]]

\* QMap::operator[] on a const map: the value, or a default-constructed one
HeaderValue(headers, name) == IF name \in DOMAIN headers THEN headers[name] ELSE << >>

\* index of the first "e" of data, 0 when there is none
EndOfRequest(data) ==
    IF \E i \in 1 .. Len(data) : data[i] = "e"
    THEN CHOOSE i \in 1 .. Len(data) : data[i] = "e" /\ \A j \in 1 .. (i - 1) : data[j] # "e"
    ELSE 0

\* RequestParser::parse, the request ending at index k
ParseUpTo(data, k) ==
    IF k = 0 THEN [status |-> "Incomplete", frameSize |-> 0, request |-> << >>]
    ELSE IF \E i \in 1 .. k : data[i] \notin {"g", "e"}
    THEN [status |-> "BadRequest", frameSize |-> 0, request |-> << >>]
    ELSE [status |-> "OK", frameSize |-> k,
          request |-> [id |-> Take(data, k),
                       headers |-> IF k = 1 THEN EmptyMap
                                   ELSE SetHeader(EmptyMap, "accept-encoding",
                                                  AcceptEncodingOf(Take(data, k - 1)))]]

Parse(data) == ParseUpTo(data, EndOfRequest(data))

\* the header maps a request handler may put in its response
HandlerHeaders ==
    { EmptyMap,
      SetHeader(SetHeader(SetHeader(EmptyMap, "Connection", "close"),
                          "Content-Encoding", "identity"),
                "Content-Type", "text/html") }

\* IRequestHandler::processRequest: the response answers the request it was given
processRequest(request) ==
    [status |-> 200, headers |-> m_requestHandler, content |-> request.id]

\* Response(status, text): no headers, no content
Response(status) == [status |-> status, headers |-> EmptyMap, content |-> << >>]

(***************************************************************************)
(* m_socket (QTcpSocket), as Connection uses it.  A connection is the      *)
(* record [data, events, sockIn, sockOut, sockState].                      *)
(***************************************************************************)
\* mutant of socketClose: only the sending side is shut down, the socket stays
\* connected and goes on receiving
socketCloseSendingSide(st) == [st EXCEPT !.events = Append(@, [e |-> "close"])]

\* QAbstractSocket::close(): drops the read buffer; the socket is unconnected once
\* its write buffer is flushed
socketClose(st) ==
    [st EXCEPT !.events = Append(@, [e |-> "close"]),
               !.sockIn = << >>,
               !.sockState = IF st.sockOut > 0 THEN "ClosingState" ELSE "UnconnectedState"]

\* QIODevice::write
socketWrite(st, response) ==
    [st EXCEPT !.events = Append(@, [e |-> "write", response |-> response]),
               !.sockOut = @ + 1]

(***************************************************************************)
(* Connection::sendResponse and Connection::read.                          *)
(***************************************************************************)
sendResponse(st, response) == socketWrite(st, response)

\* const long bufferLimit = RequestParser::MAX_CONTENT_SIZE * 1.1
bufferLimit == (MAX_CONTENT_SIZE * 11) \div 10

\* mutant of IncompleteCase: the 413 is sent and the socket is left open
IncompleteCaseNoClose(st) ==
    IF Len(st.data) > bufferLimit
    THEN sendResponse(st, [Response(413) EXCEPT !.headers = SetHeader(@, "Connection", "close")])
    ELSE st

\* mutant of IncompleteCase: a buffer of exactly bufferLimit bytes is refused already
IncompleteCaseAtLimit(st) ==
    IF Len(st.data) >= bufferLimit
    THEN socketClose(sendResponse(st,
             [Response(413) EXCEPT !.headers = SetHeader(@, "Connection", "close")]))
    ELSE st

\* case RequestParser::ParseStatus::Incomplete
IncompleteCase(st) ==
    IF Len(st.data) > bufferLimit
    THEN LET resp == [Response(413) EXCEPT !.headers = SetHeader(@, "Connection", "close")]
         IN  socketClose(sendResponse(st, resp))
    ELSE st

\* mutant of BadRequestCase: the 400 is sent and the socket is left open
BadRequestCaseNoClose(st) ==
    sendResponse(st, [Response(400) EXCEPT !.headers = SetHeader(@, "Connection", "close")])

\* case RequestParser::ParseStatus::BadRequest
BadRequestCase(st) ==
    LET resp == [Response(400) EXCEPT !.headers = SetHeader(@, "Connection", "close")]
    IN  socketClose(sendResponse(st, resp))

\* mutant of RemoveFront: the buffer is cleared once a request has been answered
RemoveFrontClears(data, len) == << >>

\* mutant of RemoveFront: the answered request is left in the buffer
RemoveFrontNothing(data, len) == data

\* QByteArray::remove(0, len)
RemoveFront(data, len) == IF len >= Len(data) THEN << >> ELSE Drop(data, len)

\* mutant of OKCase: keep-alive is set only when the handler set no Connection header
OKCaseKeepsConnection(st, result) ==
    [sendResponse(
        [st EXCEPT !.events = Append(@, [e |-> "dispatch", request |-> result.request])],
        [processRequest(result.request) EXCEPT !.headers =
            IF "Connection" \in DOMAIN @ THEN @ ELSE SetHeader(@, "Connection", "keep-alive")])
     EXCEPT !.data = RemoveFront(@, result.frameSize)]

\* mutant of OKCase: Content-Encoding: gzip is set without asking acceptsGzipEncoding
OKCaseAlwaysGzip(st, result) ==
    [sendResponse(
        [st EXCEPT !.events = Append(@, [e |-> "dispatch", request |-> result.request])],
        [processRequest(result.request) EXCEPT !.headers =
            SetHeader(SetHeader(@, "Content-Encoding", "gzip"), "Connection", "keep-alive")])
     EXCEPT !.data = RemoveFront(@, result.frameSize)]

\* case RequestParser::ParseStatus::OK
OKCase(st, result) ==
    [sendResponse(
        \* Response resp = m_requestHandler->processRequest(result.request, env)
        [st EXCEPT !.events = Append(@, [e |-> "dispatch", request |-> result.request])],
        [processRequest(result.request) EXCEPT !.headers =
            SetHeader(
                IF acceptsGzipEncoding(HeaderValue(result.request.headers, "accept-encoding"))
                THEN SetHeader(@, "Content-Encoding", "gzip")
                ELSE @,
                "Connection", "keep-alive")])
     EXCEPT !.data = RemoveFront(@, result.frameSize)]

RECURSIVE DrainLoop(_)

\* const RequestParser::ParseResult result = RequestParser::parse(m_receivedData)
Parsed(st, status) ==
    [st EXCEPT !.events = Append(@, [e |-> "parse", data |-> st.data, status |-> status])]

\* switch (result.status)
Switch(st, result) ==
    CASE result.status = "Incomplete" -> IncompleteCase(st)
      [] result.status = "BadRequest" -> BadRequestCase(st)
      [] result.status = "OK"         -> DrainLoop(OKCase(st, result))

\* mutant of DrainLoop: one request is handled by each read(), not all of them
DrainLoopOnce(st) ==
    IF st.data = << >> THEN st
    ELSE LET result == Parse(st.data) IN
         CASE result.status = "Incomplete" -> IncompleteCase(Parsed(st, result.status))
           [] result.status = "BadRequest" -> BadRequestCase(Parsed(st, result.status))
           [] result.status = "OK"         -> OKCase(Parsed(st, result.status), result)

\* mutant of DrainLoop: the rest of the buffer is drained before a parsed request
\* is dispatched and answered
DrainLoopAnswersLast(st) ==
    IF st.data = << >> THEN st
    ELSE LET result == Parse(st.data)
             st1    == Parsed(st, result.status)
         IN  CASE result.status = "Incomplete" -> IncompleteCase(st1)
               [] result.status = "BadRequest" -> BadRequestCase(st1)
               [] result.status = "OK"         ->
                    LET rest == DrainLoop([st1 EXCEPT !.data = RemoveFront(@, result.frameSize)])
                    IN  [OKCase([rest EXCEPT !.data = st1.data], result) EXCEPT !.data = rest.data]

\* while (!m_receivedData.isEmpty()) { parse; switch (result.status) ... }
DrainLoop(st) ==
    IF st.data = << >> THEN st
    ELSE Switch(Parsed(st, Parse(st.data).status), Parse(st.data))

\* mutant of Received: the part of the buffer that was not filled is not chopped
ReceivedNoChop(st, bytesRead) ==
    [i \in 1 .. (Len(st.data) + Len(st.sockIn)) |->
        IF i <= Len(st.data) THEN st.data[i]
        ELSE IF i - Len(st.data) <= bytesRead THEN st.sockIn[i - Len(st.data)]
        ELSE Uninit]

\* mutant of Received: the bytes that were delivered are chopped, not the unfilled ones
ReceivedChopsRead(st, bytesRead) ==
    LET filled == ReceivedNoChop(st, bytesRead)
    IN  IF bytesRead >= 0 /\ bytesRead < Len(st.sockIn)
        THEN Take(filled, Len(filled) - bytesRead)
        ELSE filled

\* m_receivedData.resize(previousSize + bytesAvailable), m_socket->read into the new
\* part, chop what was not filled
Received(st, bytesRead) ==
    LET previousSize   == Len(st.data)
        bytesAvailable == Len(st.sockIn)
        filled == [i \in 1 .. (previousSize + bytesAvailable) |->
                     IF i <= previousSize THEN st.data[i]
                     ELSE IF i - previousSize <= bytesRead THEN st.sockIn[i - previousSize]
                     ELSE Uninit]
    IN  IF bytesRead >= 0 /\ bytesRead < bytesAvailable
        THEN Take(filled, Len(filled) - (bytesAvailable - bytesRead))
        ELSE filled

\* mutant of read: the socket is closed after a failed read and draining goes on
readNoReturn(st, bytesRead) ==
    IF bytesRead < 0
    THEN DrainLoop(socketClose([st EXCEPT !.data = Received(st, bytesRead)]))
    ELSE DrainLoop([st EXCEPT !.data = Received(st, bytesRead),
                              !.sockIn = Drop(st.sockIn, bytesRead)])

\* Connection::read, bytesRead being what m_socket->read returns
read(st, bytesRead) ==
    IF bytesRead < 0
    THEN socketClose([st EXCEPT !.data = Received(st, bytesRead)])
    ELSE DrainLoop([st EXCEPT !.data = Received(st, bytesRead),
                              !.sockIn = Drop(st.sockIn, bytesRead)])

\* mutant of hasExpired: unflushed output is not looked at
hasExpiredIgnoresOutput(timeout) ==
    /\ Len(sockIn) = 0
    /\ m_idleTimer > timeout

\* Connection::hasExpired
hasExpired(timeout) ==
    /\ Len(sockIn) = 0
    /\ sockOut = 0
    /\ m_idleTimer > timeout    \* QElapsedTimer::hasExpired, timeout >= 0

\* Connection::isClosed
isClosed == sockState = "UnconnectedState"

(***************************************************************************)
(* The connection as a state machine: one action per signal or call.       *)
(***************************************************************************)
\* the connection record of the current state
Conn ==
    [data |-> m_receivedData, events |-> events,
     sockIn |-> sockIn, sockOut |-> sockOut, sockState |-> sockState]

\* Connection::Connection: a connected socket, an empty buffer, the timer started
Init ==
    /\ m_receivedData = << >>
    /\ m_idleTimer = 0
    /\ m_requestHandler \in HandlerHeaders
    /\ sockIn = << >>
    /\ sockOut = 0
    /\ sockState = "ConnectedState"
    /\ sent = << >>
    /\ stream = << >>
    /\ events = << >>
    /\ call = [op |-> "Connection"]
    /\ codings = << >>
    /\ gzipResult = FALSE

\* the peer sends one more byte; the socket buffers it while it is open
Arrive ==
    /\ Len(sent) < MaxStream
    /\ Len(sent) - Len(stream) < MaxPending
    /\ \E b \in Byte :
        /\ sent' = Append(sent, b)
        /\ sockIn' = IF sockState = "ConnectedState" THEN Append(sockIn, b) ELSE sockIn
    /\ call' = [op |-> "arrive"]
    /\ UNCHANGED << m_receivedData, m_idleTimer, m_requestHandler, sockOut, sockState,
                    stream, events, codings, gzipResult >>

RECURSIVE IdleParses(_)
\* the number of parser calls in a row, up to event j, that found the buffer as it
\* is now and incomplete: all but the first of them belong to reads of nothing
IdleParses(j) ==
    IF j >= 1 /\ events[j] = [e |-> "parse", data |-> m_receivedData, status |-> "Incomplete"]
    THEN 1 + IdleParses(j - 1)
    ELSE 0

\* the least number of bytes m_socket->read may deliver now
MinBytesRead == IF IdleParses(Len(events)) <= MaxIdleReads THEN 0 ELSE 1

\* QIODevice::readyRead: the lambda restarts the idle timer and calls read();
\* m_socket->read fails (-1) or delivers some or all of the bytes available
ReadyRead ==
    /\ sockState = "ConnectedState"
    /\ sockIn # << >>
    /\ \E bytesRead \in {-1} \cup (MinBytesRead .. Len(sockIn)) :
        \E st \in {read(Conn, bytesRead)} :
        /\ m_receivedData' = st.data
        /\ events' = st.events
        /\ sockIn' = st.sockIn
        /\ sockOut' = st.sockOut
        /\ sockState' = st.sockState
        /\ stream' = IF bytesRead < 0 THEN stream ELSE stream \o Take(sockIn, bytesRead)
        /\ call' = [op |-> "read", previousSize |-> Len(m_receivedData),
                    bytesAvailable |-> Len(sockIn), bytesRead |-> bytesRead,
                    mark |-> Len(events)]
    /\ m_idleTimer' = 0
    /\ UNCHANGED << m_requestHandler, sent, codings, gzipResult >>

\* mutant of BytesWritten: the lambda connected to bytesWritten is missing
BytesWrittenNoRestart ==
    /\ sockOut > 0
    /\ sockOut' = sockOut - 1
    /\ sockState' = IF sockState = "ClosingState" /\ sockOut = 1
                    THEN "UnconnectedState" ELSE sockState
    /\ call' = [op |-> "bytesWritten"]
    /\ UNCHANGED << m_receivedData, m_idleTimer, m_requestHandler, sockIn, sent, stream,
                    events, codings, gzipResult >>

\* QIODevice::bytesWritten: one response is flushed; the lambda restarts the idle timer
BytesWritten ==
    /\ sockOut > 0
    /\ sockOut' = sockOut - 1
    /\ sockState' = IF sockState = "ClosingState" /\ sockOut = 1
                    THEN "UnconnectedState" ELSE sockState
    /\ m_idleTimer' = 0
    /\ call' = [op |-> "bytesWritten"]
    /\ UNCHANGED << m_receivedData, m_requestHandler, sockIn, sent, stream, events,
                    codings, gzipResult >>

\* time passes
Tick ==
    /\ m_idleTimer < MaxElapsed
    /\ m_idleTimer' = m_idleTimer + 1
    /\ call' = [op |-> "tick"]
    /\ UNCHANGED << m_receivedData, m_requestHandler, sockIn, sockOut, sockState,
                    sent, stream, events, codings, gzipResult >>

\* mutant of HasExpired: a connection found expired closes its socket
HasExpiredCloses ==
    /\ \E timeout \in 0 .. (MaxElapsed - 1) :
        /\ call' = [op |-> "hasExpired", timeout |-> timeout, result |-> hasExpired(timeout)]
        /\ sockState' = IF hasExpired(timeout) THEN "UnconnectedState" ELSE sockState
        /\ events' = IF hasExpired(timeout) /\ sockState = "ConnectedState"
                     THEN Append(events, [e |-> "close"]) ELSE events
    /\ UNCHANGED << m_receivedData, m_idleTimer, m_requestHandler, sockIn, sockOut,
                    sent, stream, codings, gzipResult >>

\* the owner of the connection polls hasExpired(timeout)
HasExpired ==
    /\ \E timeout \in 0 .. (MaxElapsed - 1) :
        call' = [op |-> "hasExpired", timeout |-> timeout, result |-> hasExpired(timeout)]
    /\ UNCHANGED << m_receivedData, m_idleTimer, m_requestHandler, sockIn, sockOut,
                    sockState, sent, stream, events, codings, gzipResult >>

\* the owner of the connection polls isClosed()
IsClosed ==
    /\ call' = [op |-> "isClosed", result |-> isClosed]
    /\ UNCHANGED << m_receivedData, m_idleTimer, m_requestHandler, sockIn, sockOut,
                    sockState, sent, stream, events, codings, gzipResult >>

Next ==
    \/ Arrive
    \/ ReadyRead
    \/ BytesWritten
    \/ Tick
    \/ HasExpired
    \/ IsClosed

Spec == Init /\ [][Next]_vars

(***************************************************************************)
(* acceptsGzipEncoding as a state machine: the header value is drawn from  *)
(* a bounded set of entry lists, one action applies the function.          *)
(***************************************************************************)
DEFLATE == << "d", "e", "f", "l", "a", "t", "e" >>

GZIPPER == << "g", "z", "i", "p", "p", "e", "r" >>

CodingNames == {GZIP, STAR, DEFLATE, GZIPPER}

CodingSuffixes ==
    { << >>,
      << ";", "q", "=", "0" >>,
      << ";", "q", "=", "0", ".", "5" >>,
      << ";", "q", "=", "0", ".", "3" >>,
      << ";", "q", "=", "a", "b", "c" >>,
      << "1" >> }

CodingEntries == {n \o x : n \in CodingNames, x \in CodingSuffixes}

CodingSeparators == { << ",", " " >>, << "\t", "," >> }

RECURSIVE Join(_, _)
Join(entries, sep) ==
    IF entries = << >> THEN << >>
    ELSE IF Len(entries) = 1 THEN Head(entries)
    ELSE Head(entries) \o sep \o Join(Tail(entries), sep)

\* the header values of the model: up to MaxEntries entries, one separator throughout
GzipInputs ==
    {Join(es, sep) : es \in UNION {[1 .. n -> CodingEntries] : n \in 0 .. MaxEntries},
                     sep \in CodingSeparators}

InitGzip ==
    /\ m_receivedData = << >>
    /\ m_idleTimer = 0
    /\ m_requestHandler = EmptyMap
    /\ sockIn = << >>
    /\ sockOut = 0
    /\ sockState = "ConnectedState"
    /\ sent = << >>
    /\ stream = << >>
    /\ events = << >>
    /\ call = [op |-> "Connection"]
    /\ codings \in GzipInputs
    /\ gzipResult = FALSE

\* a call of acceptsGzipEncoding(codings)
AcceptsGzip ==
    /\ call.op # "acceptsGzipEncoding"
    /\ gzipResult' = acceptsGzipEncoding(codings)
    /\ call' = [op |-> "acceptsGzipEncoding",
                canGzip |-> isCodingAvailable(CodingList(codings), GZIP),
                canAny |-> isCodingAvailable(CodingList(codings), STAR)]
    /\ UNCHANGED << m_receivedData, m_idleTimer, m_requestHandler, sockIn, sockOut,
                    sockState, sent, stream, events, codings >>

NextGzip == AcceptsGzip

SpecGzip == InitGzip /\ [][NextGzip]_vars

(***************************************************************************)
(* The drain loop of Connection::read step by step, one action per         *)
(* iteration, over every buffer content and every verdict the parser       *)
(* interface allows for it.                                                *)
(***************************************************************************)
\* the buffers the loop may start on
BufferContents == UNION {[1 .. n -> Byte] : n \in 0 .. MaxBuffer}

\* the header maps of the requests the parser may return: no accept-encoding
\* header, or one that accepts gzip, excludes it, or accepts it through *
RequestHeaders ==
    {EmptyMap}
    \cup { SetHeader(EmptyMap, "accept-encoding", value) :
             value \in { GZIP,
                         GZIP \o << ";", "q", "=", "0" >>,
                         << "b", "r", ",", " ", "*" >> } }

\* what RequestParser::parse may return for a non-empty buffer: Incomplete,
\* BadRequest, or OK with the number of leading bytes the request occupied
ParserResults(data) ==
    { [status |-> "Incomplete", frameSize |-> 0, request |-> << >>],
      [status |-> "BadRequest", frameSize |-> 0, request |-> << >>] }
    \cup { [status |-> "OK", frameSize |-> k,
            request |-> [id |-> Take(data, k), headers |-> headers]] :
              k \in 1 .. Len(data), headers \in RequestHeaders }

InitDrain ==
    /\ m_receivedData \in BufferContents
    /\ m_idleTimer = 0
    /\ m_requestHandler \in HandlerHeaders
    /\ sockIn = << >>
    /\ sockOut = 0
    /\ sockState = "ConnectedState"
    /\ sent = m_receivedData
    /\ stream = m_receivedData
    /\ events = << >>
    /\ call = [op |-> "drain"]
    /\ codings = << >>
    /\ gzipResult = FALSE

\* while (!m_receivedData.isEmpty()): the condition is false, read() returns
LoopExit ==
    /\ call.op = "drain"
    /\ m_receivedData = << >>
    /\ call' = [op |-> "returned"]
    /\ UNCHANGED << m_receivedData, m_idleTimer, m_requestHandler, sockIn, sockOut,
                    sockState, sent, stream, events, codings, gzipResult >>

\* the body of one case of the switch
SwitchCase(st, result) ==
    CASE result.status = "Incomplete" -> IncompleteCase(st)
      [] result.status = "BadRequest" -> BadRequestCase(st)
      [] result.status = "OK"         -> OKCase(st, result)

\* one iteration of the loop: parse, switch; Incomplete and BadRequest return, OK
\* breaks out of the switch and the loop goes on
LoopBody ==
    /\ call.op = "drain"
    /\ m_receivedData # << >>
    /\ \E result \in ParserResults(m_receivedData) :
        \E st \in {SwitchCase(Parsed(Conn, result.status), result)} :
        /\ m_receivedData' = st.data
        /\ events' = st.events
        /\ sockOut' = st.sockOut
        /\ sockState' = st.sockState
        /\ call' = [op |-> IF result.status = "OK" THEN "drain" ELSE "returned"]
    /\ UNCHANGED << m_idleTimer, m_requestHandler, sockIn, sent, stream, codings, gzipResult >>

NextDrain ==
    \/ LoopExit
    \/ LoopBody

SpecDrain == InitDrain /\ [][NextDrain]_vars

(***************************************************************************)
(* Vocabulary of the properties.                                           *)
(***************************************************************************)
\* the Connection has closed the transport
Closed == sockState # "ConnectedState"

\* the events of the read() invocation that has just returned (call.op = "read")
Invocation == SubSeq(events, call.mark + 1, Len(events))

\* the size n exceeds MAX_CONTENT_SIZE x 1.1
ExceedsCeiling(n) == n * 10 > MAX_CONTENT_SIZE * 11

\* the 413 / 400 response with Connection: close and nothing else
ErrorWrite(status) ==
    [e |-> "write",
     response |-> [status |-> status, headers |-> [k \in {"Connection"} |-> "close"],
                   content |-> << >>]]

CloseEvent == [e |-> "close"]

\* the transport was closed by a failed read (not after a 400 or a 413)
ReadFailed ==
    /\ Closed
    /\ ~(/\ Len(events) >= 2
         /\ events[Len(events) - 1] \in {ErrorWrite(400), ErrorWrite(413)})

RECURSIVE StreamFrames(_)
\* the byte stream cut after each "e": the requests in the order they were received
StreamFrames(bytes) ==
    LET k == EndOfRequest(bytes) IN
    IF k = 0 THEN << >> ELSE << Take(bytes, k) >> \o StreamFrames(Drop(bytes, k))

\* the responses written for parsed requests, in the order written
Answers == SelectSeq(events, LAMBDA ev : ev.e = "write" /\ ev.response.status = 200)

RECURSIVE Consumed(_)
\* the number of stream bytes answered by the first j events
Consumed(j) ==
    IF j = 0 THEN 0
    ELSE Consumed(j - 1)
         + (IF events[j].e = "write" /\ events[j].response.status = 200
            THEN Len(events[j].response.content) ELSE 0)

(***************************************************************************)
(* C3                                                                      *)
(***************************************************************************)
\* C3: whenever read() has returned and the Connection has not closed the
\* transport, the size of receiveBuffer is at most MAX_CONTENT_SIZE x 1.1; a
\* read() that would leave a larger buffer waiting for bytes closes instead.
C3_BufferWithinCeilingWhileOpen ==
    ~Closed => ~ExceedsCeiling(Len(m_receivedData))

\* a read() has just closed the transport over an incomplete buffer above the ceiling
C3_Witness ==
    /\ call.op = "read"
    /\ Closed
    /\ ExceedsCeiling(Len(m_receivedData))
    /\ Parse(m_receivedData).status = "Incomplete"

(***************************************************************************)
(* C4                                                                      *)
(***************************************************************************)
\* C4: on an Incomplete verdict, a buffer strictly above the ceiling gets exactly
\* one 413 with Connection: close and then the close; a buffer at or below the
\* ceiling gets nothing written, no close and is left unchanged; either way
\* read() returns without parsing again.
C4_IncompleteVerdict ==
    call.op = "read" =>
        \A j \in (call.mark + 1) .. Len(events) :
            (events[j].e = "parse" /\ events[j].status = "Incomplete") =>
                IF ExceedsCeiling(Len(events[j].data))
                THEN /\ Len(events) = j + 2
                     /\ events[j + 1] = ErrorWrite(413)
                     /\ events[j + 2] = CloseEvent
                     /\ Closed
                ELSE /\ Len(events) = j
                     /\ ~Closed
                     /\ m_receivedData = events[j].data

\* an Incomplete buffer of exactly the ceiling was left alone, the next read() made
\* it one byte larger and answered 413
C4_Witness ==
    /\ call.op = "read"
    /\ Len(events) >= 4
    /\ LET j == Len(events) - 2 IN
       /\ events[j].e = "parse" /\ events[j].status = "Incomplete"
       /\ Len(events[j].data) = bufferLimit + 1
       /\ events[j - 1].e = "parse" /\ events[j - 1].status = "Incomplete"
       /\ Len(events[j - 1].data) = bufferLimit
       /\ ~ExceedsCeiling(bufferLimit)
       /\ events[j + 1] = ErrorWrite(413)
       /\ Closed

(***************************************************************************)
(* C5                                                                      *)
(***************************************************************************)
\* C5: on a BadRequest verdict the Connection writes exactly one 400 with
\* Connection: close, closes the transport and stops draining: the handler is
\* called neither for the malformed bytes nor for any request behind them.
C5_BadRequestVerdict ==
    call.op = "read" =>
        \A j \in (call.mark + 1) .. Len(events) :
            (events[j].e = "parse" /\ events[j].status = "BadRequest") =>
                /\ Len(events) = j + 2
                /\ events[j + 1] = ErrorWrite(400)
                /\ events[j + 2] = CloseEvent
                /\ Closed
                /\ m_receivedData = events[j].data

\* a 400 was answered while a complete valid request sits behind the malformed one
C5_Witness ==
    /\ call.op = "read"
    /\ Closed
    /\ Len(events) >= 3
    /\ events[Len(events) - 1] = ErrorWrite(400)
    /\ Parse(m_receivedData).status = "BadRequest"
    /\ Parse(Drop(m_receivedData, EndOfRequest(m_receivedData))).status = "OK"

(***************************************************************************)
(* C6                                                                      *)
(***************************************************************************)
\* the buffer read() started draining: the last previousSize + bytesRead stream bytes
DrainStart == Drop(stream, Len(stream) - (call.previousSize + call.bytesRead))

\* C6: when read() returns with the transport open no complete request is left at
\* the front of receiveBuffer; two complete requests back-to-back in the buffer
\* are both dispatched and answered, in order, by the one read() invocation.
C6_PipeliningComplete ==
    /\ ~Closed => (m_receivedData = << >> \/ Parse(m_receivedData).status = "Incomplete")
    /\ (call.op = "read" /\ call.bytesRead >= 0) =>
          LET first  == Parse(DrainStart)
              second == Parse(Drop(DrainStart, first.frameSize))
          IN  (first.status = "OK" /\ second.status = "OK") =>
                  /\ Len(Invocation) >= 6
                  /\ Invocation[2] = [e |-> "dispatch", request |-> first.request]
                  /\ Invocation[3].e = "write"
                  /\ Invocation[3].response.content = first.request.id
                  /\ Invocation[5] = [e |-> "dispatch", request |-> second.request]
                  /\ Invocation[6].e = "write"
                  /\ Invocation[6].response.content = second.request.id

\* the read() that received the second request's last byte dispatched two requests,
\* the first of which had been partly buffered before
C6_Witness ==
    /\ call.op = "read"
    /\ call.bytesRead >= 0
    /\ call.previousSize > 0
    /\ ~Closed
    /\ Len(SelectSeq(Invocation, LAMBDA ev : ev.e = "dispatch")) = 2
    /\ Len(SelectSeq(Invocation, LAMBDA ev : ev.e = "write")) = 2

C8_ReadFailure ==
    (call.op = "read" /\ call.bytesRead < 0) =>
        /\ Invocation = << CloseEvent >>
        /\ Closed

\* a read failed while receiveBuffer held bytes of an earlier read
C8_Witness ==
    /\ call.op = "read"
    /\ call.bytesRead < 0
    /\ call.previousSize > 0
    /\ Closed

(***************************************************************************)
(* C9                                                                      *)
(***************************************************************************)
\* C9: every response written for a parsed request carries Connection: keep-alive
\* whatever the handler put there; Connection: close is only on the 400 and 413
\* responses.
C9_KeepAlive ==
    \A j \in 1 .. Len(events) :
        events[j].e = "write" =>
            LET headers  == events[j].response.headers
                answered == j > 1 /\ events[j - 1].e = "dispatch"
            IN  /\ "Connection" \in DOMAIN headers
                /\ answered => headers["Connection"] = "keep-alive"
                /\ headers["Connection"] = "close" =>
                      (~answered /\ events[j].response.status \in {400, 413})

\* the handler asked for Connection: close and its response was written
C9_Witness ==
    /\ "Connection" \in DOMAIN m_requestHandler
    /\ m_requestHandler["Connection"] = "close"
    /\ \E j \in 2 .. Len(events) : events[j].e = "write" /\ events[j - 1].e = "dispatch"

(***************************************************************************)
(* C1                                                                      *)
(***************************************************************************)
\* C1: the responses are written in the order in which the requests they answer
\* lie in the received byte stream, and within read() the response to a request
\* is written before the parser is called on the bytes of the next request.
C1_Fifo ==
    /\ IsPrefix([i \in 1 .. Len(Answers) |-> Answers[i].response.content],
                StreamFrames(stream))
    /\ \A j \in 1 .. Len(events) :
          events[j].e = "parse" =>
              \* the parser is called on the bytes right behind the answered requests
              /\ IsPrefix(events[j].data, Drop(stream, Consumed(j - 1)))
              \* a parsed request is dispatched and answered next
              /\ events[j].status = "OK" =>
                    LET frame == Take(events[j].data, EndOfRequest(events[j].data)) IN
                    /\ j + 2 <= Len(events)
                    /\ events[j + 1].e = "dispatch"
                    /\ events[j + 1].request.id = frame
                    /\ events[j + 2].e = "write"
                    /\ events[j + 2].response.content = frame

\* one read() answered two different pipelined requests
C1_Witness ==
    /\ call.op = "read"
    /\ Len(SelectSeq(Invocation, LAMBDA ev : ev.e = "write")) >= 2
    /\ Len(Answers) >= 2
    /\ Answers[Len(Answers)].response.content # Answers[Len(Answers) - 1].response.content

(***************************************************************************)
(* C2                                                                      *)
(***************************************************************************)
\* a connection that has received nothing yet, with bytes waiting in its socket
Fresh(bytes) ==
    [data |-> << >>, events |-> << >>, sockIn |-> bytes, sockOut |-> 0,
     sockState |-> "ConnectedState"]

\* the whole of bytes delivered by a single read() invocation
OneShot(bytes) == IF bytes = << >> THEN Fresh(bytes) ELSE read(Fresh(bytes), Len(bytes))

\* what C2 compares
Outcome(st) ==
    [dispatched |-> SelectSeq(st.events, LAMBDA ev : ev.e = "dispatch"),
     written    |-> SelectSeq(st.events, LAMBDA ev : ev.e = "write"),
     closed     |-> st.sockState # "ConnectedState",
     data       |-> st.data]

\* C2 as claimed: however the stream the peer sent is cut into chunks for read(),
\* once the connection has read all of it or has closed the transport the
\* dispatches, the responses, the open/closed state and the final receiveBuffer
\* are those of a single read() of the whole stream.
C2_ChunkIndependence_Original ==
    ((Closed \/ stream = sent) /\ ~ReadFailed) => Outcome(Conn) = Outcome(OneShot(sent))

\* C2 as amended: when every chunk of the stream is delivered (no read() closes
\* the transport before the last chunk is read), the dispatches, the responses,
\* the open/closed state and the final receiveBuffer are those of a single read()
\* of the whole stream.
C2_ChunkIndependence ==
    stream = sent => Outcome(Conn) = Outcome(OneShot(sent))

\* a request that arrived over two reads was reassembled and answered, and a
\* second request followed it
C2_Witness ==
    /\ stream = sent
    /\ ~Closed
    /\ Len(Answers) >= 2
    /\ \E j \in 1 .. (Len(events) - 1) :
          /\ events[j].e = "parse" /\ events[j].status = "Incomplete"
          /\ events[j + 1].e = "parse" /\ events[j + 1].status = "OK"

(***************************************************************************)
(* C10                                                                     *)
(***************************************************************************)
RECURSIVE C10_Cut(_, _)
\* the non-empty stretches between the commas of str, in order; cur is the stretch
\* being read
C10_Cut(str, cur) ==
    IF str = << >> THEN (IF cur = << >> THEN << >> ELSE << cur >>)
    ELSE IF Head(str) = ","
    THEN (IF cur = << >> THEN << >> ELSE << cur >>) \o C10_Cut(Tail(str), << >>)
    ELSE C10_Cut(Tail(str), Append(cur, Head(str)))

\* the tokens of the header value, spaces and tabs stripped
C10_Tokens == C10_Cut(SelectSeq(codings, LAMBDA c : c \notin {" ", "\t"}), << >>)

\* tok, which starts with T, is T itself or T, three more characters and a number
\* greater than 0
C10_Acceptable(tok, T) ==
    \/ tok = T
    \/ /\ toDouble(SubSeq(tok, Len(T) + 4, Len(tok))).ok
       /\ toDouble(SubSeq(tok, Len(T) + 4, Len(tok))).sign > 0

\* T is accepted in the token list toks: the first token that starts with T is
\* acceptable
C10_AcceptedIn(toks, T) ==
    \E i \in 1 .. Len(toks) :
        /\ IsPrefix(T, toks[i])
        /\ \A j \in 1 .. (i - 1) : ~IsPrefix(T, toks[j])
        /\ C10_Acceptable(toks[i], T)

C10_Accepted(T) == C10_AcceptedIn(C10_Tokens, T)

\* C10: acceptsGzipEncoding gives the listed result for each listed header value,
\* and in general is true iff, of the comma separated tokens left after spaces and
\* tabs are stripped, gzip is accepted or else * is; it is false for no tokens.
C10_AcceptsGzipEncoding ==
    call.op = "acceptsGzipEncoding" =>
        /\ codings = GZIP => gzipResult = TRUE
        /\ codings = GZIP \o << ";", "q", "=", "0" >> => gzipResult = FALSE
        /\ codings = GZIP \o << ";", "q", "=", "0", ".", "5" >> => gzipResult = TRUE
        /\ codings = << >> => gzipResult = FALSE
        /\ codings = STAR => gzipResult = TRUE
        /\ codings = DEFLATE => gzipResult = FALSE
        /\ codings = GZIP \o << ";", "q", "=", "a", "b", "c" >> => gzipResult = FALSE
        /\ codings = DEFLATE \o << ",", " " >> \o STAR \o << ";", "q", "=", "0", ".", "3" >>
              => gzipResult = TRUE
        /\ C10_Tokens = << >> => gzipResult = FALSE
        /\ gzipResult = (C10_Accepted(GZIP) \/ C10_Accepted(STAR))

\* acceptsGzipEncoding("deflate, *;q=0.3") returned true
C10_Witness ==
    /\ call.op = "acceptsGzipEncoding"
    /\ codings = DEFLATE \o << ",", " " >> \o STAR \o << ";", "q", "=", "0", ".", "3" >>
    /\ gzipResult = TRUE

(***************************************************************************)
(* C11                                                                     *)
(***************************************************************************)
C11_QPrefix == << ";", "q", "=" >>

\* entry is T itself, or T immediately followed by ";q=" and a number greater than 0
C11_ExactOrQuality(entry, T) ==
    \/ entry = T
    \/ /\ IsPrefix(T \o C11_QPrefix, entry)
       /\ toDouble(Drop(entry, Len(T) + 3)).ok
       /\ toDouble(Drop(entry, Len(T) + 3)).sign > 0

\* the pass of isCodingAvailable for T over the entries of codings answered accepted
C11_PassAccepted(T) == IF T = GZIP THEN call.canGzip ELSE call.canAny

\* C11: an entry that starts with T makes T accepted only if it is T exactly or T
\* immediately followed by ";q=" and a number greater than 0; an entry that only
\* has T as a prefix ("gzipper", "gzipper" and more characters) never makes T
\* accepted.
C11_ExactOrQualityOnly ==
    call.op = "acceptsGzipEncoding" =>
        \A T \in {GZIP, STAR} :
            C11_PassAccepted(T) =>
                \E i \in 1 .. Len(C10_Tokens) :
                    /\ IsPrefix(T, C10_Tokens[i])
                    /\ C11_ExactOrQuality(C10_Tokens[i], T)

(***************************************************************************)
(* C12                                                                     *)
(***************************************************************************)
\* receiveBuffer right after the removal that follows the OK verdict of events[j]:
\* what the parser is called on next or, at the end of read(), the buffer itself
C12_AfterRemoval(j) ==
    IF j + 3 <= Len(events) THEN events[j + 3].data ELSE m_receivedData

\* C12: after each OK verdict receiveBuffer is what it was before the removal
\* with exactly the first frameSize bytes dropped: the rest is unchanged, in
\* order, and starts at the first byte of the next request (or is empty).
C12_FrameRemoved ==
    call.op = "read" =>
        \A j \in (call.mark + 1) .. Len(events) :
            (events[j].e = "parse" /\ events[j].status = "OK") =>
                LET before    == events[j].data
                    frameSize == Parse(before).frameSize
                IN  /\ frameSize >= 1 /\ frameSize <= Len(before)
                    /\ Len(C12_AfterRemoval(j)) = Len(before) - frameSize
                    /\ \A i \in 1 .. Len(C12_AfterRemoval(j)) :
                          C12_AfterRemoval(j)[i] = before[frameSize + i]
                    /\ j + 3 <= Len(events) => events[j + 3].e = "parse"

\* a request was answered and removed while the first bytes of the next one were
\* already behind it in the buffer
C12_Witness ==
    /\ call.op = "read"
    /\ ~Closed
    /\ Len(events) >= 4
    /\ events[Len(events)].e = "parse" /\ events[Len(events)].status = "Incomplete"
    /\ events[Len(events) - 3].e = "parse" /\ events[Len(events) - 3].status = "OK"
    /\ Len(events) - 3 > call.mark
    /\ m_receivedData # << >>

(***************************************************************************)
(* C13                                                                     *)
(***************************************************************************)
\* C13: when m_socket->read delivers fewer bytes than were available
\* (0 <= bytesRead < bytesAvailable), receiveBuffer is previousSize + bytesRead
\* bytes long when the drain loop starts, and holds the bytes received and nothing
\* else: the parser is not shown a trailing region that was never filled.
C13_ShortRead ==
    (call.op = "read" /\ call.bytesRead >= 0 /\ call.bytesRead < call.bytesAvailable) =>
        /\ \A j \in (call.mark + 1) .. Len(events) :
              events[j].e = "parse" => \A i \in 1 .. Len(events[j].data) : events[j].data[i] # Uninit
        /\ IF call.previousSize + call.bytesRead = 0
           THEN Invocation = << >> /\ m_receivedData = << >>
           ELSE /\ Invocation # << >>
                /\ Invocation[1].e = "parse"
                /\ Len(Invocation[1].data) = call.previousSize + call.bytesRead
                /\ Invocation[1].data = DrainStart

\* a read delivered some but not all of the available bytes behind bytes that
\* were already buffered
C13_Witness ==
    /\ call.op = "read"
    /\ call.previousSize > 0
    /\ call.bytesRead >= 1
    /\ call.bytesRead < call.bytesAvailable
    /\ Invocation # << >>

(***************************************************************************)
(* C14                                                                     *)
(***************************************************************************)
\* C14: once the Connection has closed the transport (failed read, 413, 400) it
\* stops processing: the close is the last thing it ever does, no parser call,
\* dispatch or response follows it in any later step, and a 400 or 413 is followed
\* by the close and nothing else, whatever is left in receiveBuffer.
C14_StopsAfterClose ==
    /\ Closed <=> (events # << >> /\ events[Len(events)] = CloseEvent)
    /\ \A j \in 1 .. Len(events) :
          /\ events[j] = CloseEvent => j = Len(events)
          /\ (events[j].e = "write" /\ events[j].response.status \in {400, 413}) =>
                (Len(events) = j + 1 /\ events[j + 1] = CloseEvent)

\* a 400 closed the transport with a complete request still in receiveBuffer
\* behind the malformed one, and the 400 has since been flushed
C14_Witness ==
    /\ Closed
    /\ call.op = "bytesWritten"
    /\ sockOut = 0
    /\ Len(events) >= 2
    /\ events[Len(events) - 1] = ErrorWrite(400)
    /\ Parse(Drop(m_receivedData, EndOfRequest(m_receivedData))).status = "OK"

(***************************************************************************)
(* C15                                                                     *)
(***************************************************************************)
\* C15: the idle clock restarts on every readable notification (whatever read()
\* then does: fail, drain, write responses, close) and on every flushed
\* notification, and nothing else touches it: polling hasExpired or isClosed
\* leaves it as it is, and without a notification it only runs on.
C15_IdleClock ==
    [][ /\ call'.op \in {"read", "bytesWritten"} => m_idleTimer' = 0
        /\ call'.op \in {"hasExpired", "isClosed", "arrive"} => m_idleTimer' = m_idleTimer
        /\ m_idleTimer' \in {0, m_idleTimer, m_idleTimer + 1}
        /\ m_idleTimer' = m_idleTimer + 1 => call'.op = "tick" ]_vars

\* hasExpired was polled while the clock had run on since a response was written
\* that is not flushed yet
C15_Witness ==
    /\ call.op = "hasExpired"
    /\ m_idleTimer >= 1
    /\ sockOut > 0
    /\ Answers # << >>

(***************************************************************************)
(* C16                                                                     *)
(***************************************************************************)
\* the history ev ends with a protocol-violation closure: a 413 for an incomplete
\* buffer above the ceiling, or a 400 for a bad request, and the close
C16_ProtocolClosure(ev) ==
    /\ Len(ev) >= 3
    /\ ev[Len(ev)] = CloseEvent
    /\ ev[Len(ev) - 2].e = "parse"
    /\ \/ /\ ev[Len(ev) - 1] = ErrorWrite(413)
          /\ ev[Len(ev) - 2].status = "Incomplete"
          /\ ExceedsCeiling(Len(ev[Len(ev) - 2].data))
       \/ /\ ev[Len(ev) - 1] = ErrorWrite(400)
          /\ ev[Len(ev) - 2].status = "BadRequest"

\* the step is a hasExpired poll and changes nothing but the poll's record
C16_PollChangesNothing ==
    call'.op = "hasExpired" =>
        UNCHANGED << m_receivedData, m_idleTimer, m_requestHandler, sockIn, sockOut,
                     sockState, sent, stream, events >>

\* the step closes the transport
C16_Closes == sockState = "ConnectedState" /\ sockState' # "ConnectedState"

\* C16 as claimed: the Connection never closes the transport because of idle
\* time: a hasExpired poll changes no state, and the only closes the Connection
\* initiates are the protocol-violation closures (oversize incomplete buffer, bad
\* request).
C16_NoIdleClose_Original ==
    [][ /\ C16_PollChangesNothing
        /\ C16_Closes => (call'.op = "read" /\ C16_ProtocolClosure(events')) ]_vars

\* C16 as amended: the Connection never closes the transport because of idle
\* time: a hasExpired poll changes no state, and the only closes the Connection
\* initiates are the protocol-violation closures and the close after a failed
\* transport read.
C16_NoIdleClose ==
    [][ /\ C16_PollChangesNothing
        /\ C16_Closes =>
              /\ call'.op = "read"
              /\ \/ C16_ProtocolClosure(events')
                 \/ call'.bytesRead < 0 /\ events' = Append(events, CloseEvent) ]_vars

\* hasExpired answered true and the transport is still open
C16_Witness ==
    /\ call.op = "hasExpired"
    /\ call.result = TRUE
    /\ ~Closed
    /\ m_idleTimer >= 1

(***************************************************************************)
(* C17                                                                     *)
(***************************************************************************)
\* the parser calls of the loop so far, one per iteration
C17_Iterations == SelectSeq(events, LAMBDA ev : ev.e = "parse")

\* C17: read() terminates whatever the buffer holds and whatever verdicts the
\* parser gives within its interface: every iteration that goes on has taken at
\* least one byte off the buffer, so a loop started on n bytes makes at most n
\* iterations; it goes on only after an OK verdict and has returned once the
\* buffer is empty or a verdict was not OK.
C17_DrainTerminates ==
    /\ Len(C17_Iterations) <= Len(stream)
    /\ Len(C17_Iterations) + Len(m_receivedData) <= Len(stream) + 1
    /\ call.op = "drain" =>
          /\ \A j \in 1 .. Len(C17_Iterations) : C17_Iterations[j].status = "OK"
          /\ Len(C17_Iterations) + Len(m_receivedData) <= Len(stream)
    /\ call.op = "returned" =>
          \/ m_receivedData = << >>
          \/ /\ C17_Iterations # << >>
             /\ C17_Iterations[Len(C17_Iterations)].status \in {"Incomplete", "BadRequest"}

\* the loop returned on an incomplete rest after it had drained two requests
C17_Witness ==
    /\ call.op = "returned"
    /\ Len(C17_Iterations) = 3
    /\ C17_Iterations[1].status = "OK"
    /\ C17_Iterations[2].status = "OK"
    /\ C17_Iterations[3].status = "Incomplete"
    /\ m_receivedData # << >>

(***************************************************************************)
(* C18                                                                     *)
(***************************************************************************)
\* the tokens of the header value that start with T, in order
C18_EntriesFor(T) == SelectSeq(C10_Tokens, LAMBDA tok : IsPrefix(T, tok))

\* the quality value of entry T;q=<value> is a number greater than 0
C18_QualityPositive(entry, T) ==
    /\ toDouble(Drop(entry, Len(T) + 3)).ok
    /\ toDouble(Drop(entry, Len(T) + 3)).sign > 0

\* C18: for each target token T only the first entry that starts with T decides
\* whether T is accepted: with no such entry T is not accepted; if the first one
\* is T itself or T;q=<number greater than 0>, T is accepted whatever follows; if
\* it is T;q=<anything else>, T is not accepted even when a later entry for T
\* would be acceptable ("gzip;q=0,gzip" does not accept gzip); the pass over the
\* whole list answers what the pass over that one entry answers.
C18_FirstEntryDecides ==
    call.op = "acceptsGzipEncoding" =>
        /\ \A T \in {GZIP, STAR} :
              LET entries == C18_EntriesFor(T) IN
              IF entries = << >> THEN ~C11_PassAccepted(T)
              ELSE /\ entries[1] = T => C11_PassAccepted(T)
                   /\ IsPrefix(T \o C11_QPrefix, entries[1]) =>
                         (C11_PassAccepted(T) <=> C18_QualityPositive(entries[1], T))
                   /\ C11_PassAccepted(T) <=> isCodingAvailable(<< entries[1] >>, T)
        /\ C10_Tokens = << GZIP \o << ";", "q", "=", "0" >>, GZIP >> =>
              (~call.canGzip /\ gzipResult = FALSE)

\* acceptsGzipEncoding("gzip;q=0, gzip") returned false
C18_Witness ==
    /\ call.op = "acceptsGzipEncoding"
    /\ C10_Tokens = << GZIP \o << ";", "q", "=", "0" >>, GZIP >>
    /\ gzipResult = FALSE

(***************************************************************************)
(* C19                                                                     *)
(***************************************************************************)
\* the first token for gzip, when there is one
C19_GzipEntry == C18_EntriesFor(GZIP)[1]

\* C19: whenever gzip is not accepted by its own pass (no entry for it, a quality
\* value that is no number, or q=0) the result is exactly whether * is accepted;
\* "gzip;q=0, *" yields true.
C19_StarFallback ==
    call.op = "acceptsGzipEncoding" =>
        /\ ~call.canGzip => gzipResult = call.canAny
        /\ C18_EntriesFor(GZIP) = << >> => gzipResult = C10_Accepted(STAR)
        /\ (/\ C18_EntriesFor(GZIP) # << >>
            /\ IsPrefix(GZIP \o C11_QPrefix, C19_GzipEntry)
            /\ ~C18_QualityPositive(C19_GzipEntry, GZIP)) => gzipResult = C10_Accepted(STAR)
        /\ C10_Tokens = << GZIP \o << ";", "q", "=", "0" >>, STAR >> => gzipResult = TRUE

\* acceptsGzipEncoding("gzip;q=0, *") returned true
C19_Witness ==
    /\ call.op = "acceptsGzipEncoding"
    /\ C10_Tokens = << GZIP \o << ";", "q", "=", "0" >>, STAR >>
    /\ ~call.canGzip
    /\ gzipResult = TRUE

(***************************************************************************)
(* C20                                                                     *)
(***************************************************************************)
\* the headers the Connection sets itself in the response to request
C20_OwnHeaders(request) ==
    IF acceptsGzipEncoding(HeaderValue(request.headers, "accept-encoding"))
    THEN {"Connection", "Content-Encoding"}
    ELSE {"Connection"}

\* written is the handler's response handled to request, but for the Connection's
\* own headers
C20_Written(written, handled, request) ==
    /\ written.status = handled.status
    /\ written.content = handled.content
    /\ DOMAIN written.headers = DOMAIN handled.headers \cup C20_OwnHeaders(request)
    /\ written.headers["Connection"] = "keep-alive"
    /\ "Content-Encoding" \in C20_OwnHeaders(request) =>
          written.headers["Content-Encoding"] = "gzip"
    /\ \A name \in DOMAIN handled.headers \ C20_OwnHeaders(request) :
          written.headers[name] = handled.headers[name]

\* C20: the response written for a parsed request is the response the handler
\* returned for it except that Connection is keep-alive and that Content-Encoding
\* is gzip if and only if acceptsGzipEncoding holds for the request's
\* accept-encoding header; otherwise the handler's Content-Encoding, present or
\* absent, is left as it is; status, body and every other header are unchanged.
C20_ResponseFrame ==
    \A j \in 1 .. Len(events) :
        events[j].e = "dispatch" =>
            /\ j + 1 <= Len(events)
            /\ events[j + 1].e = "write"
            /\ C20_Written(events[j + 1].response,
                           [status |-> 200, headers |-> m_requestHandler,
                            content |-> events[j].request.id],
                           events[j].request)

\* a handler that sets Connection, Content-Encoding and Content-Type answered a
\* request that accepts gzip and a request whose accept-encoding header excludes it
C20_Witness ==
    /\ "Content-Type" \in DOMAIN m_requestHandler
    /\ \E i, j \in 1 .. (Len(events) - 1) :
          /\ events[i].e = "dispatch"
          /\ events[i + 1].response.headers["Content-Encoding"] = "gzip"
          /\ events[j].e = "dispatch"
          /\ "accept-encoding" \in DOMAIN events[j].request.headers
          /\ events[j + 1].response.headers["Content-Encoding"] = "identity"

====
